---------------------------- MODULE Spec2Model ----------------------------
(***************************************************************************)
(* Conversation-state management of openai-manager.                        *)
(*                                                                         *)
(* Two managers are modelled side by side and driven by the same calls:    *)
(*   j...  the JSON-file manager   (src/openai_manager.py)                 *)
(*   s...  the SQLite manager      (src/openai_manager_sqlite.py)          *)
(* A message is a record [role, content].  The completion provider is an   *)
(* opaque call whose outcome is an input of chat.                          *)
(***************************************************************************)
EXTENDS Integers, Sequences, FiniteSets, TLC

(* ------------------------------ bounds -------------------------------- *)

\* chat is not explored once an in-memory history is longer than this
MaxHist == 5

\* chat is not explored once the AUTOINCREMENT counter has passed this
MaxId == 4

(* ------------------------------ inputs -------------------------------- *)

\* content of the file chat_history/system
SysText == "sys"

\* a system message passed to chat as an override
Override == "ovr"

\* user messages; "" is the empty message chat rejects
UserMsgs == {"", "q1", "q2"}

\* content of a completion that carries text
ReplyText == "a1"

\* outcomes of openai.chat.completions.create: a completion with text, with
\* empty text or with no text, or one of the exceptions chat catches
ProviderOutcomes == {"reply", "empty", "none", "not_found", "auth", "error"}

ProviderErrors == {"not_found", "auth", "error"}

\* outcomes of writing the chat_log file: the write succeeds, open() fails
\* (the file is untouched), or write() fails after open(.., 'w') truncated it
WriteOutcomes == {"ok", "open_fail", "write_fail"}

\* outcomes of a database access: it succeeds, or a statement or the commit fails
DbOutcomes == {"ok", "execute_fail", "commit_fail"}

\* bindings of the module-level name smsg in openai_manager.py: the file binds
\* none ("unbound"); "empty" is the name bound to "" by an importing program.
\* A binding to any other string reaches the free name logger of line 79 and
\* ends like "unbound".
SmsgBindings == {"unbound", "empty"}

(* ----------------------------- messages ------------------------------- *)

Msg(r, c) == [role |-> r, content |-> c]

Unset == [set |-> FALSE, val |-> <<>>]

Attr(v) == [set |-> TRUE, val |-> v]

NotReached == [reached |-> FALSE, msgs |-> <<>>]

Reached(m) == [reached |-> TRUE, msgs |-> m]

Ret(v, p) == [kind |-> "ret", val |-> v, path |-> p]

Raise(e, p) == [kind |-> "raise", val |-> e, path |-> p]

Turn(msg, content) == <<Msg("user", msg), Msg("assistant", content)>>

\* completion.choices[0].message.content of a completion that was returned
Content(po) == IF po = "reply" THEN ReplyText ELSE ""

(* ----------------------------- JSON file ------------------------------ *)

\* The text of chat_log is a sequence of tokens, each a pair of strings.
OpenTok == <<"[", "">>

CloseTok == <<"]", "">>

RECURSIVE EncodeItems(_)
EncodeItems(h) ==
  IF h = <<>> THEN <<>>
  ELSE <<  <<Head(h).role, Head(h).content>>  >> \o EncodeItems(Tail(h))

\* json.dumps(self.history, indent=4)
JsonDumps(h) == <<OpenTok>> \o EncodeItems(h) \o <<CloseTok>>

\* json.loads succeeds only on a complete array
JsonValid(t) == Len(t) >= 2 /\ t[1] = OpenTok /\ t[Len(t)] = CloseTok

\* json.loads(content) of a valid text
JsonLoads(t) == [i \in 1..(Len(t) - 2) |-> Msg(t[i + 1][1], t[i + 1][2])]

NoFile == [exists |-> FALSE, text |-> <<>>]

File(t) == [exists |-> TRUE, text |-> t]

(* ---------------------------- history table --------------------------- *)

Row(i, r, c) == [id |-> i, role |-> r, content |-> c]

MinId(rows) == CHOOSE i \in {r.id : r \in rows} : \A r \in rows : i <= r.id

\* SELECT role, content FROM history : the rows in rowid order
RECURSIVE SelectRows(_)
SelectRows(rows) ==
  IF rows = {} THEN <<>>
  ELSE LET first == CHOOSE r \in rows : r.id = MinId(rows)
       IN  <<Msg(first.role, first.content)>> \o SelectRows(rows \ {first})

VARIABLES
  manager,      \* which manager the program drives: "json", "sqlite" or "both"
  smsgGlobal,   \* binding of the free name smsg read by the JSON manager's chat
  jSmsg,        \* JSON manager: self.smsg
  jHistory,     \* JSON manager: self.history
  jFile,        \* chat_history/chat_log
  jRes,         \* JSON manager: how the last call ended
  jSent,        \* JSON manager: messages passed to the provider by the last call
  sSmsg,        \* SQLite manager: self.smsg
  sHistory,     \* SQLite manager: self.history
  sRows,        \* rows of table history
  sSeq,         \* AUTOINCREMENT counter of table history
  sRes,         \* SQLite manager: how the last call ended
  sSent,        \* SQLite manager: messages passed to the provider by the last call
  call,         \* the last call and its inputs
  faulted       \* a storage fault has been injected so far

vars == <<manager, smsgGlobal, jSmsg, jHistory, jFile, jRes, jSent,
          sSmsg, sHistory, sRows, sSeq, sRes, sSent, call, faulted>>

JActive == manager \in {"json", "both"}

SActive == manager \in {"sqlite", "both"}

(* ------------------------- persisted sequences ------------------------ *)

\* the chat_log JSON array (empty when the file is missing or unreadable)
JPersisted ==
  IF jFile.exists /\ JsonValid(jFile.text) THEN JsonLoads(jFile.text) ELSE <<>>

\* the rows of the history table
SPersisted == SelectRows(sRows)

(* ------------------------- JSON manager (j) --------------------------- *)
\* Each operation is an operator giving the state of the manager and of its
\* file after the call, and how the call ended.

JState == [smsg |-> jSmsg, history |-> jHistory, file |-> jFile,
           res |-> jRes, sent |-> NotReached]

\* get_system_message: reads chat_history/system into self.smsg
Json_get_system_message(exists) ==
  IF ~exists
  THEN [JState EXCEPT !.res = Ret("False", "no_system_file")]
  ELSE [JState EXCEPT !.smsg = Attr(SysText), !.res = Ret("True", "ok")]

\* get_history, the branch taken when the file exists and parses:
\* self.history = json.loads(content); self.history.insert(0, system message)
Json_loaded(parsed) ==
  IF jSmsg.set
  THEN [JState EXCEPT !.history = Attr(<<Msg("system", jSmsg.val)>> \o parsed),
                      !.res = Ret("True", "ok")]
  ELSE [JState EXCEPT !.history = Attr(parsed),
                      !.res = Raise("AttributeError", "smsg_unset")]

\* get_history, the branch taken when there is no file: self.history = []
Json_no_file == [JState EXCEPT !.history = Attr(<<>>), !.res = Ret("True", "ok")]

Json_get_history ==
  IF jFile.exists
  THEN IF JsonValid(jFile.text)
       THEN Json_loaded(JsonLoads(jFile.text))
       ELSE [JState EXCEPT !.res = Ret("False", "json_decode_error")]
  ELSE Json_no_file

\* the messages parameter of the request; the amnesia flag is not consulted
Json_messages(system, msg, amnesia) ==
  <<Msg("system", system)>> \o jHistory.val \o <<Msg("user", msg)>>

\* the write of the history to chat_log inside try/except
Json_write(h, wo) ==
  CASE wo = "ok"         -> File(JsonDumps(h))
    [] wo = "open_fail"  -> jFile
    [] wo = "write_fail" -> File(<<>>)

\* the history after the two appends of lines 112-113
Json_append(msg, content) == jHistory.val \o Turn(msg, content)

\* chat from the point where a completion has been returned (lines 109-124)
Json_after_completion(msg, amnesia, po, wo, sent) ==
  IF po = "none"
  THEN [JState EXCEPT !.sent = sent, !.res = Raise("TypeError", "none_completion")]
  ELSE IF amnesia
  THEN [JState EXCEPT !.sent = sent, !.res = Ret(Content(po), "ok_amnesia")]
  ELSE LET h == Json_append(msg, Content(po))
       IN  [JState EXCEPT !.history = Attr(h), !.file = Json_write(h, wo), !.sent = sent,
                          !.res = Ret(Content(po), IF wo = "ok" THEN "ok" ELSE "persist_error")]

\* chat.  The override parameter is spelled smgs and is never read; the body
\* reads the free name smsg (line 75) and, when that is not "", the free name
\* logger (line 79), which the module does not define.
Json_chat(msg, amnesia, po, wo) ==
  IF msg = "" THEN [JState EXCEPT !.res = Ret("", "empty_msg")]
  ELSE IF smsgGlobal # "empty" THEN [JState EXCEPT !.res = Raise("NameError", "name_error")]
  ELSE IF ~jSmsg.set THEN [JState EXCEPT !.res = Raise("AttributeError", "smsg_unset")]
  ELSE IF ~jHistory.set THEN [JState EXCEPT !.res = Ret("", "history_unset")]
  ELSE LET sent == Reached(Json_messages(jSmsg.val, msg, amnesia))
       IN  IF po \in ProviderErrors
           THEN [JState EXCEPT !.sent = sent, !.res = Ret("", "provider_error")]
           ELSE Json_after_completion(msg, amnesia, po, wo, sent)

\* clear_history: os.remove of the file when it exists
Json_clear_history ==
  IF jFile.exists
  THEN [JState EXCEPT !.file = NoFile, !.res = Ret("True", "ok")]
  ELSE [JState EXCEPT !.res = Ret("False", "no_file")]

(* ------------------------ SQLite manager (s) -------------------------- *)

SState == [smsg |-> sSmsg, history |-> sHistory, rows |-> sRows, seq |-> sSeq,
           res |-> sRes, sent |-> NotReached]

Sqlite_get_system_message(exists) ==
  IF ~exists
  THEN [SState EXCEPT !.res = Ret("False", "no_system_file")]
  ELSE [SState EXCEPT !.smsg = Attr(SysText), !.res = Ret("True", "ok")]

\* get_history: self.history = [] and then one append per selected row
Sqlite_get_history(db) ==
  IF db # "ok"
  THEN [SState EXCEPT !.history = Attr(<<>>), !.res = Raise("DatabaseError", "db_error")]
  ELSE [SState EXCEPT !.history = Attr(SelectRows(sRows)), !.res = Ret("True", "ok")]

\* history = self.history if not amnesia else []
Sqlite_history(amnesia) == IF amnesia THEN <<>> ELSE sHistory.val

\* the messages parameter of the request
Sqlite_messages(system, msg, amnesia) ==
  <<Msg("system", system)>> \o Sqlite_history(amnesia) \o <<Msg("user", msg)>>

\* variant of Sqlite_usable without the check for an empty completion
Sqlite_usable_NoEmptyCheck(po) == po # "none"

\* the completion passes the checks of lines 128-134
Sqlite_usable(po) == po \notin {"none", "empty"}

\* the rows added by the two INSERTs
Sqlite_inserted(msg, content) ==
  {Row(sSeq + 1, "user", msg), Row(sSeq + 2, "assistant", content)}

\* the two INSERTs and the commit; an uncommitted transaction is rolled back
\* when the connection closes
Sqlite_insert(msg, content, db) ==
  IF db = "ok"
  THEN [rows |-> sRows \cup Sqlite_inserted(msg, content), seq |-> sSeq + 2]
  ELSE [rows |-> sRows, seq |-> sSeq]

\* chat from the point where a usable completion has been returned (lines 137-149)
Sqlite_after_completion(msg, amnesia, po, db, sent) ==
  IF amnesia
  THEN [SState EXCEPT !.sent = sent, !.res = Ret(Content(po), "ok_amnesia")]
  ELSE LET ins == Sqlite_insert(msg, Content(po), db)
       IN  [SState EXCEPT !.history = Attr(sHistory.val \o Turn(msg, Content(po))),
                          !.rows = ins.rows, !.seq = ins.seq, !.sent = sent,
                          !.res = IF db = "ok" THEN Ret(Content(po), "ok")
                                  ELSE Raise("DatabaseError", "persist_error")]

Sqlite_chat(msg, amnesia, smsg, po, db) ==
  IF msg = "" THEN [SState EXCEPT !.res = Ret("", "empty_msg")]
  ELSE IF smsg = "" /\ ~sSmsg.set
  THEN [SState EXCEPT !.res = Raise("AttributeError", "smsg_unset")]
  ELSE IF ~amnesia /\ ~sHistory.set
  THEN [SState EXCEPT !.res = Raise("AttributeError", "history_unset")]
  ELSE LET system == IF smsg = "" THEN sSmsg.val ELSE smsg
           sent   == Reached(Sqlite_messages(system, msg, amnesia))
       IN  IF po \in ProviderErrors
           THEN [SState EXCEPT !.sent = sent, !.res = Ret("", "provider_error")]
           ELSE IF ~Sqlite_usable(po)
           THEN [SState EXCEPT !.sent = sent,
                               !.res = Ret("", IF po = "none" THEN "none_completion"
                                                              ELSE "empty_completion")]
           ELSE Sqlite_after_completion(msg, amnesia, po, db, sent)

\* variant of Sqlite_clear_history whose DELETE is never committed
Sqlite_clear_history_NoCommit(db) ==
  IF db = "ok"
  THEN [SState EXCEPT !.res = Ret("True", "ok")]
  ELSE [SState EXCEPT !.res = Raise("DatabaseError", "db_error")]

\* clear_history: DELETE FROM history and commit
Sqlite_clear_history(db) ==
  IF db = "ok"
  THEN [SState EXCEPT !.rows = {}, !.res = Ret("True", "ok")]
  ELSE [SState EXCEPT !.res = Raise("DatabaseError", "db_error")]

(* ----------------------------- behaviour ------------------------------ *)

Call(op, msg, amnesia, smsg, po) ==
  [op |-> op, msg |-> msg, amnesia |-> amnesia, smsg |-> smsg, po |-> po]

NoArgs(op) == Call(op, "", FALSE, "", "reply")

InitFor(managers) ==
  /\ manager \in managers
  /\ smsgGlobal \in SmsgBindings
  /\ jSmsg = Unset /\ jHistory = Unset /\ jFile = NoFile
  /\ jRes = Ret("", "init") /\ jSent = NotReached
  /\ sSmsg = Unset /\ sHistory = Unset /\ sRows = {} /\ sSeq = 0
  /\ sRes = Ret("", "init") /\ sSent = NotReached
  /\ call = NoArgs("init")
  /\ faulted = FALSE

\* the program drives one manager
Init == InitFor({"json", "sqlite"})

\* the program drives both managers with the same calls
InitBoth == InitFor({"both"})

\* a manager the program does not drive keeps its state
JStep(j) ==
  LET n == IF JActive THEN j ELSE [JState EXCEPT !.sent = jSent]
  IN  /\ jSmsg' = n.smsg /\ jHistory' = n.history /\ jFile' = n.file
      /\ jRes' = n.res /\ jSent' = n.sent

SStep(s) ==
  LET n == IF SActive THEN s ELSE [SState EXCEPT !.sent = sSent]
  IN  /\ sSmsg' = n.smsg /\ sHistory' = n.history /\ sRows' = n.rows /\ sSeq' = n.seq
      /\ sRes' = n.res /\ sSent' = n.sent

\* the storage outcomes a call can meet: a fault is an input only of a call
\* that reaches the storage
DbChoices == IF SActive THEN DbOutcomes ELSE {"ok"}

JsonWriteOutcomes(msg, amnesia, po) ==
  IF JActive /\ Json_chat(msg, amnesia, po, "ok").res.path = "ok"
  THEN WriteOutcomes ELSE {"ok"}

SqliteDbOutcomes(msg, amnesia, smsg, po) ==
  IF SActive /\ Sqlite_chat(msg, amnesia, smsg, po, "ok").res.path = "ok"
  THEN DbOutcomes ELSE {"ok"}

\* the JSON manager's chat does not read its override parameter
Overrides == IF SActive THEN {"", Override} ELSE {""}

get_system_message ==
  \E exists \in BOOLEAN :
    /\ JStep(Json_get_system_message(exists))
    /\ SStep(Sqlite_get_system_message(exists))
    /\ call' = NoArgs("get_system_message")
    /\ UNCHANGED <<manager, smsgGlobal, faulted>>

get_history ==
  \E db \in DbChoices :
    /\ JStep(Json_get_history)
    /\ SStep(Sqlite_get_history(db))
    /\ call' = NoArgs("get_history")
    /\ faulted' = (faulted \/ db # "ok")
    /\ UNCHANGED <<manager, smsgGlobal>>

chat ==
  /\ Len(jHistory.val) + 2 <= MaxHist
  /\ Len(sHistory.val) + 2 <= MaxHist
  /\ sSeq + 2 <= MaxId
  /\ \E msg \in UserMsgs, amnesia \in BOOLEAN, smsg \in Overrides,
        po \in ProviderOutcomes :
       \E wo \in JsonWriteOutcomes(msg, amnesia, po),
          db \in SqliteDbOutcomes(msg, amnesia, smsg, po) :
         /\ JStep(Json_chat(msg, amnesia, po, wo))
         /\ SStep(Sqlite_chat(msg, amnesia, smsg, po, db))
         /\ call' = Call("chat", msg, amnesia, smsg, po)
         /\ faulted' = (faulted \/ wo # "ok" \/ db # "ok")
         /\ UNCHANGED <<manager, smsgGlobal>>

clear_history ==
  \E db \in DbChoices :
    /\ JStep(Json_clear_history)
    /\ SStep(Sqlite_clear_history(db))
    /\ call' = NoArgs("clear_history")
    /\ faulted' = (faulted \/ db # "ok")
    /\ UNCHANGED <<manager, smsgGlobal>>

Next == get_system_message \/ get_history \/ chat \/ clear_history

Spec == Init /\ [][Next]_vars

SpecBoth == InitBoth /\ [][Next]_vars

(* ------------------------------ claims -------------------------------- *)

IsSystem(m) == m.role = "system"

IsTurnMsg(m) == m.role \in {"user", "assistant"}

HasSystem(h) == \E i \in 1..Len(h) : IsSystem(h[i])

\* the user/assistant messages of h, in order
Conversation(h) == SelectSeq(h, IsTurnMsg)

\* the last call was a chat that appended its turn to the in-memory history
Appended(res) == res.path \in {"ok", "persist_error"}

\* the in-memory history as it was when the last chat built its request
Before(history, res) ==
  IF Appended(res) THEN SubSeq(history.val, 1, Len(history.val) - 2) ELSE history.val

\* the turn the last chat call is about
CallTurn(c) == Turn(c.msg, Content(c.po))

EndsWith(h, t) == Len(h) >= Len(t) /\ SubSeq(h, Len(h) - Len(t) + 1, Len(h)) = t

C2_LoadPrependsSystem ==
  call.op = "get_history" =>
    /\ (JActive /\ jRes = Ret("True", "ok") /\ jSmsg.set) =>
         jHistory.val = <<Msg("system", jSmsg.val)>> \o JPersisted
    /\ (SActive /\ sRes = Ret("True", "ok") /\ sSmsg.set) =>
         sHistory.val = <<Msg("system", sSmsg.val)>> \o SPersisted

\* what C3 asks of one step
C3_Step ==
  call'.op = "chat" =>
    /\ JActive =>
         \/ jHistory' = jHistory /\ jFile' = jFile
         \/ /\ jHistory'.val = jHistory.val \o CallTurn(call')
            /\ EndsWith(JPersisted', CallTurn(call'))
    /\ SActive =>
         \/ sHistory' = sHistory /\ sRows' = sRows
         \/ /\ sHistory'.val = sHistory.val \o CallTurn(call')
            /\ SPersisted' = SPersisted \o CallTurn(call')

\* C3: a chat step records its turn both in memory and in storage, or leaves
\* both as they were, also when the file write or the database access fails.
C3_AllOrNothing == [][C3_Step]_vars

\* what C4 asks of one step
C4_Step ==
  /\ (call'.op = "clear_history" /\ JActive /\ jRes'.kind = "ret") =>
       ~jFile'.exists /\ JPersisted' = <<>>
  /\ (call'.op = "clear_history" /\ SActive /\ sRes'.kind = "ret") =>
       sRows' = {} /\ SPersisted' = <<>>
  /\ (call.op = "clear_history" /\ call'.op = "get_history") =>
       /\ (JActive /\ jRes.kind = "ret" /\ jRes' = Ret("True", "ok")) =>
            Conversation(jHistory'.val) = <<>>
       /\ (SActive /\ sRes.kind = "ret" /\ sRes' = Ret("True", "ok")) =>
            Conversation(sHistory'.val) = <<>>

\* C4: once clear_history has returned the storage holds no turn, and a
\* get_history that follows at once and succeeds yields a history with no user
\* or assistant message.
C4_ClearRemovesAll == [][C4_Step]_vars

\* C4 witness: turns were inserted, clear_history deleted them, and a
\* get_history that succeeded has reloaded the history
C4_Witness ==
  /\ call.op = "get_history" /\ sRes = Ret("True", "ok")
  /\ sSeq > 0 /\ sRows = {}

\* the ways chat ends that C5 counts as failures
FailurePaths ==
  {"empty_msg", "provider_error", "none_completion", "empty_completion", "persist_error"}

\* C5: every failure path of chat (empty message, provider failure, empty or
\* missing completion, failure while persisting) ends with chat returning "".
C5_FailuresReturnEmpty ==
  call.op = "chat" =>
    /\ (JActive /\ jRes.path \in FailurePaths) => (jRes.kind = "ret" /\ jRes.val = "")
    /\ (SActive /\ sRes.path \in FailurePaths) => (sRes.kind = "ret" /\ sRes.val = "")

\* the shape C6 asks of the list sent by the last chat
WellFormedRequest(sent, history, res) ==
  sent.reached =>
    LET m == sent.msgs
    IN  /\ Len(m) >= 2
        /\ IsSystem(m[1])
        /\ \A i \in 2..Len(m) : ~IsSystem(m[i])
        /\ m[Len(m)] = Msg("user", call.msg)
        /\ ~call.amnesia => SubSeq(m, 2, Len(m) - 1) = Conversation(Before(history, res))

SameResult(a, b) == a.kind = b.kind /\ (a.kind = "ret" => a.val = b.val)

\* C7: driven by the same calls with the same provider outcomes, the two
\* managers send the same list, end the call the same way and hold the same
\* persisted conversation (stated for runs without a storage fault, once both
\* have loaded the system message and the history, and for a call without an
\* override).
C7_Interchangeable ==
  (manager = "both" /\ ~faulted /\ jSmsg.set /\ sSmsg.set /\ jHistory.set /\ sHistory.set
     /\ call.smsg = "") =>
    /\ jSent = sSent
    /\ SameResult(jRes, sRes)
    /\ JPersisted = SPersisted

\* what C8 asks of one step
C8_Step ==
  call'.op = "chat" =>
    /\ (JActive /\ (call'.msg = "" \/ call'.po \in ProviderErrors)) =>
         jHistory' = jHistory /\ jFile' = jFile
    /\ (SActive /\ (call'.msg = "" \/ call'.po \in ProviderErrors \/ call'.po \in {"none", "empty"})) =>
         sHistory' = sHistory /\ sRows' = sRows /\ sSeq' = sSeq

\* C8: a chat called with an empty message, or whose provider call fails, or
\* (SQLite) whose completion is None or empty, leaves the in-memory history and
\* the persisted sequence as they were.
C8_FailureLeavesState == [][C8_Step]_vars

\* C8 witness: a chat on a non-empty, persisted conversation reached the
\* provider and got a completion without content
C8_Witness ==
  /\ call.op = "chat" /\ call.po = "none" /\ call.msg # "" /\ ~call.amnesia
  /\ sSent.reached /\ sRes.path = "none_completion"
  /\ Len(sHistory.val) > 0 /\ sRows # {}

\* C9: once get_history has been called, after completed calls (and no storage
\* fault) the user/assistant messages of the in-memory history are exactly the
\* persisted messages, in the same order.
C9_MemoryMatchesStorage ==
  (~faulted /\ call.op \in {"get_history", "chat", "clear_history"}) =>
    /\ (JActive /\ jHistory.set /\ jRes.kind = "ret") =>
         Conversation(jHistory.val) = JPersisted
    /\ (SActive /\ sHistory.set /\ sRes.kind = "ret") =>
         Conversation(sHistory.val) = SPersisted

\* the list C10 asks a chat with amnesia to send
AmnesiaRequest(sent) ==
  sent.reached =>
    /\ Len(sent.msgs) = 2
    /\ IsSystem(sent.msgs[1])
    /\ sent.msgs[2] = Msg("user", call'.msg)

\* what C10 asks of one step
C10_Step ==
  (call'.op = "chat" /\ call'.amnesia /\ ~faulted') =>
    /\ JActive => (AmnesiaRequest(jSent') /\ jHistory' = jHistory /\ jFile' = jFile)
    /\ SActive => (AmnesiaRequest(sSent') /\ sHistory' = sHistory /\ sRows' = sRows)

=============================================================================
